---- MODULE Spec2Model ----
(***************************************************************************)
(* Model of streamlit.proxy.ProxyConnection: one report session holding a *)
(* master ReportQueue, the per-client ReportQueues cloned from it, the    *)
(* lifecycle flags and the file system observer.                          *)
(*                                                                         *)
(* ReportQueue objects live in a heap (a sequence of queue records); a    *)
(* Python reference to a ReportQueue is an index into the heap, so that   *)
(* aliasing between the master queue and a client queue is expressible.   *)
(***************************************************************************)
EXTENDS Integers, Sequences, FiniteSets, TLC

(* ---- bounds of the model ---- *)
MaxDeltas == 2
MaxQueues == 3
NumThreads == 2
MaxDelivered == 2
MaxEvents == 2

Threads == 1..NumThreads

None == "None"

(* the value None of self._fs_observer *)
NoObserver == [recursive |-> FALSE, state |-> None]

VARIABLES
    id,              \* self.id
    name,            \* self.name
    cfg,             \* the options read through config.get_option
    start_ok,        \* environment: does Observer.start() succeed in a mode
    start_attempts,  \* history: the modes in which a start was attempted
    cwd,             \* self.cwd
    command_line,    \* self.command_line
    events,          \* the observer's queue of file system events (paths)
    worker,          \* the observer's thread, which runs the handler
    running,         \* the number of re-run processes that have not exited
    handled,         \* history: the events taken off the queue, in order
    has_local,       \* self._has_local
    in_grace_period, \* self._in_grace_period
    heap,            \* the ReportQueue objects, heap[master_queue] included
    client_queues,   \* self._client_queues, a list of references
    fs_observer,     \* self._fs_observer
    delivered,       \* history: what the owner of each queue drained from it
    attached,        \* history: the circumstances in which each queue was made
    next_delta,      \* the next delta the producer will send
    ret,             \* the last call that returned and its outcome
    pc,              \* position of each caller thread
    t_delta,         \* thread local: the delta argument of enqueue
    t_idx,           \* thread local: index of the list iterator
    t_queue          \* thread local: new_queue of add_client_queue

vars == <<id, name, cfg, start_ok, start_attempts, cwd, command_line, events,
          worker, running, handled, has_local, in_grace_period, heap,
          client_queues, fs_observer, delivered, attached, next_delta, ret,
          pc, t_delta, t_idx, t_queue>>

session_vars == <<id, name, cfg, start_ok, start_attempts, cwd, command_line>>
watcher_vars == <<events, worker, running, handled>>
thread_vars == <<pc, t_delta, t_idx, t_queue>>

(* self._master_queue: the reference to the master ReportQueue *)
master_queue == 1

(* ---- ReportQueue (streamlit.ReportQueue) ---- *)

(* ReportQueue(): a new, empty, open queue *)
NewQueue == [deltas |-> <<>>, closed |-> FALSE]

(* queue(delta): no-op on a closed queue, else stores the delta in order *)
QueueCall(h, q, delta) ==
    IF h[q].closed THEN h
    ELSE [h EXCEPT ![q].deltas = Append(@, delta)]

(* queue.close(): idempotent *)
QueueClose(h, q) == [h EXCEPT ![q].closed = TRUE]

(* queue.clone(): a new queue object holding a copy of the deltas *)
QueueClone(h, q) ==
    [heap |-> Append(h, [NewQueue EXCEPT !.deltas = h[q].deltas]),
     ref |-> Len(h) + 1]

(* queue.get_deltas(): returns the deltas and clears the queue *)
QueueGetDeltas(h, q) ==
    [heap |-> [h EXCEPT ![q].deltas = <<>>], deltas |-> h[q].deltas]

(* ---- helpers ---- *)

Range(s) == {s[i] : i \in 1..Len(s)}

(* list.remove(x): removes the first occurrence of x *)
RECURSIVE ListRemove(_, _)
ListRemove(l, x) ==
    IF l = <<>> THEN <<>>
    ELSE IF Head(l) = x THEN Tail(l)
    ELSE <<Head(l)>> \o ListRemove(Tail(l), x)

(* ret.value is <<>> for None and <<b>> for the Boolean b *)
NoRet == [op |-> "__init__", value |-> <<>>, files |-> <<>>, queue |-> 0,
          raised |-> None]

Ret(op) == [NoRet EXCEPT !.op = op]

(* ---- the file system observer ---- *)

(* the name of the mode that the recursive argument selects *)
Mode(recursive) == IF recursive THEN "recursive" ELSE "flat"

(* the paths of the file system events that occur *)
Paths == {"/w/app.py", "/w/.git/hook.py", "/w/data.csv"}

(* the paths that a glob pattern matches: the wildcard also matches the
   path separator *)
Matching(pattern) ==
    CASE pattern = "*.py" -> {"/w/app.py", "/w/.git/hook.py"}
      [] pattern = "*.csv" -> {"/w/data.csv"}
      [] pattern = "*/.git/*" -> {"/w/.git/hook.py"}
      [] OTHER -> {}

(* faulty variant of FSEventHandler.__init__: ignore_patterns is not handed
   on to PatternMatchingEventHandler *)
FSEventHandler_IgnoreDropped(kwargs) ==
    [patterns |-> kwargs.patterns, ignore_patterns |-> {}]

(* FSEventHandler.__init__: the keyword arguments patterns and
   ignore_patterns go to PatternMatchingEventHandler; fn_to_run is
   self._on_fs_event in every call *)
FSEventHandler(kwargs) ==
    [patterns |-> kwargs.patterns, ignore_patterns |-> kwargs.ignore_patterns]

(* PatternMatchingEventHandler.dispatch: does the handler call
   on_any_event for an event with this path *)
Dispatches(handler, path) ==
    /\ \E pattern \in handler.patterns : path \in Matching(pattern)
    /\ ~\E pattern \in handler.ignore_patterns : path \in Matching(pattern)

(* _initialize_fs_observer: a handler is scheduled on a new Observer, then
   Observer.start(), None on OSError *)
InitializeFsObserver(recursive, ok, kwargs) ==
    IF ok[Mode(recursive)]
    THEN [recursive |-> recursive, state |-> "started",
          handler |-> FSEventHandler(kwargs)]
    ELSE NoObserver

(* the keyword arguments that _initialize_fs_observer_with_fallback passes
   from the configuration *)
HandlerArgs(c) ==
    [patterns |-> c.watchPatterns, ignore_patterns |-> c.ignorePatterns]

(* faulty variant of _initialize_fs_observer_with_fallback: no second
   attempt *)
InitializeFsObserverWithFallback_NoRetry(c, ok) ==
    IF ~c.watchFileSystem
    THEN [observer |-> NoObserver, attempts |-> <<>>]
    ELSE [observer |-> InitializeFsObserver(c.watchUpdatesRecursively, ok,
                                            HandlerArgs(c)),
          attempts |-> <<Mode(c.watchUpdatesRecursively)>>]

(* faulty variant of _initialize_fs_observer_with_fallback: a failed start
   is retried in flat mode whatever the configured mode *)
InitializeFsObserverWithFallback_AlwaysRetry(c, ok) ==
    IF ~c.watchFileSystem
    THEN [observer |-> NoObserver, attempts |-> <<>>]
    ELSE LET first == InitializeFsObserver(c.watchUpdatesRecursively, ok,
                                           HandlerArgs(c))
         IN  IF first = NoObserver
             THEN [observer |-> InitializeFsObserver(FALSE, ok,
                                                     HandlerArgs(c)),
                   attempts |-> <<Mode(c.watchUpdatesRecursively), "flat">>]
             ELSE [observer |-> first,
                   attempts |-> <<Mode(c.watchUpdatesRecursively)>>]

(* _initialize_fs_observer_with_fallback: the observer and the start
   attempts that were made *)
InitializeFsObserverWithFallback(c, ok) ==
    IF ~c.watchFileSystem
    THEN [observer |-> NoObserver, attempts |-> <<>>]
    ELSE LET first == InitializeFsObserver(c.watchUpdatesRecursively, ok,
                                           HandlerArgs(c))
         IN  IF first = NoObserver /\ c.watchUpdatesRecursively
             THEN [observer |-> InitializeFsObserver(FALSE, ok,
                                                     HandlerArgs(c)),
                   attempts |-> <<Mode(c.watchUpdatesRecursively), "flat">>]
             ELSE [observer |-> first,
                   attempts |-> <<Mode(c.watchUpdatesRecursively)>>]

(* ---- ProxyConnection.__init__ ---- *)

Sessions ==
    {[id |-> "abc", name |-> "demo", cwd |-> "/w",
      command_line |-> <<"python", "app.py">>],
     [id |-> "xyz", name |-> "other", cwd |-> "/home",
      command_line |-> <<"python", "other.py", "--fast">>]}

Configs == [watchFileSystem : BOOLEAN, watchUpdatesRecursively : BOOLEAN,
            watchPatterns : {{"*.py"}, {"*.py", "*.csv"}},
            ignorePatterns : {{}, {"*/.git/*"}}]

StartOutcomes == [recursive : BOOLEAN, flat : BOOLEAN]

Init ==
    /\ \E s \in Sessions :
          /\ id = s.id
          /\ name = s.name
          /\ cwd = s.cwd
          /\ command_line = s.command_line
    /\ cfg \in Configs
    /\ start_ok \in StartOutcomes
    /\ has_local = TRUE
    /\ in_grace_period = TRUE
    /\ heap = <<NewQueue>>
    /\ client_queues = <<>>
    /\ fs_observer = InitializeFsObserverWithFallback(cfg, start_ok).observer
    /\ start_attempts = InitializeFsObserverWithFallback(cfg, start_ok).attempts
    /\ events = <<>>
    /\ worker = IF fs_observer = NoObserver THEN None ELSE "idle"
    /\ running = 0
    /\ handled = <<>>
    /\ delivered = <<<<>>>>
    /\ attached = <<[live |-> TRUE, removed |-> 0]>>
    /\ next_delta = 1
    /\ ret = NoRet
    /\ pc = [t \in Threads |-> "idle"]
    /\ t_delta = [t \in Threads |-> 0]
    /\ t_idx = [t \in Threads |-> 0]
    /\ t_queue = [t \in Threads |-> 0]

(* one session, with the proxy.watchFileSystem option off *)
InitSession ==
    /\ Init
    /\ id = "abc"
    /\ cfg = [watchFileSystem |-> FALSE, watchUpdatesRecursively |-> FALSE,
              watchPatterns |-> {"*.py"}, ignorePatterns |-> {}]
    /\ start_ok = [recursive |-> TRUE, flat |-> TRUE]

(* history kept for a queue cloned now: whether the producer is present with
   the master queue open, and the number of times the queue was removed from
   the list of client queues *)
AttachRecord ==
    [live |-> has_local /\ ~heap[master_queue].closed, removed |-> 0]

AllIdle == \A t \in Threads : pc[t] = "idle"

(* ---- the operations, each as one atomic call ---- *)

(* the fan-out loop of enqueue over a list of queue references *)
RECURSIVE FanOut(_, _, _)
FanOut(h, qs, delta) ==
    IF qs = <<>> THEN h
    ELSE FanOut(QueueCall(h, Head(qs), delta), Tail(qs), delta)

(* the loop of finished_local_connection over a list of queue references *)
RECURSIVE CloseAll(_, _)
CloseAll(h, qs) ==
    IF qs = <<>> THEN h
    ELSE CloseAll(QueueClose(h, Head(qs)), Tail(qs))

(* faulty variant of enqueue: a delta that arrives marks the producer as
   present again *)
Enqueue_RevivesProducer ==
    /\ AllIdle
    /\ next_delta <= MaxDeltas
    /\ heap' = FanOut(QueueCall(heap, master_queue, next_delta),
                      client_queues, next_delta)
    /\ next_delta' = next_delta + 1
    /\ ret' = Ret("enqueue")
    /\ has_local' = TRUE
    /\ UNCHANGED <<session_vars, watcher_vars, thread_vars, in_grace_period,
                   client_queues, fs_observer, delivered, attached>>

(* enqueue(delta) *)
Enqueue ==
    /\ AllIdle
    /\ next_delta <= MaxDeltas
    /\ heap' = FanOut(QueueCall(heap, master_queue, next_delta),
                      client_queues, next_delta)
    /\ next_delta' = next_delta + 1
    /\ ret' = Ret("enqueue")
    /\ UNCHANGED <<session_vars, watcher_vars, thread_vars, has_local,
                   in_grace_period, client_queues, fs_observer, delivered,
                   attached>>

(* faulty variant of end_grace_period: flips the flag *)
EndGracePeriod_Toggle ==
    /\ AllIdle
    /\ in_grace_period' = ~in_grace_period
    /\ ret' = Ret("end_grace_period")
    /\ UNCHANGED <<session_vars, watcher_vars, thread_vars, has_local, heap,
                   client_queues, fs_observer, delivered, attached,
                   next_delta>>

(* end_grace_period() *)
EndGracePeriod ==
    /\ AllIdle
    /\ in_grace_period' = FALSE
    /\ ret' = Ret("end_grace_period")
    /\ UNCHANGED <<session_vars, watcher_vars, thread_vars, has_local, heap,
                   client_queues, fs_observer, delivered, attached,
                   next_delta>>

(* faulty variant of add_client_queue: the new queue is a fresh
   ReportQueue() instead of a clone of the master queue *)
AddClientQueue_NoReplay ==
    /\ AllIdle
    /\ Len(heap) < MaxQueues
    /\ in_grace_period' = FALSE
    /\ heap' = Append(heap, NewQueue)
    /\ delivered' = Append(delivered, <<>>)
    /\ attached' = Append(attached, AttachRecord)
    /\ client_queues' = Append(client_queues, Len(heap) + 1)
    /\ ret' = [Ret("add_client_queue") EXCEPT !.queue = Len(heap) + 1]
    /\ UNCHANGED <<session_vars, watcher_vars, thread_vars, has_local,
                   fs_observer, next_delta>>

(* faulty variant of add_client_queue: the new queue is the master queue
   itself, not a clone of it *)
AddClientQueue_Alias ==
    /\ AllIdle
    /\ Len(client_queues) < MaxQueues
    /\ in_grace_period' = FALSE
    /\ client_queues' = Append(client_queues, master_queue)
    /\ ret' = [Ret("add_client_queue") EXCEPT !.queue = master_queue]
    /\ UNCHANGED <<session_vars, watcher_vars, thread_vars, has_local, heap,
                   fs_observer, delivered, attached, next_delta>>

(* faulty variant of add_client_queue: the grace period is left as it is
   and the new queue is returned without being appended to the list *)
AddClientQueue_NotAttached ==
    /\ AllIdle
    /\ Len(heap) < MaxQueues
    /\ LET c == QueueClone(heap, master_queue)
       IN  /\ heap' = c.heap
           /\ delivered' = Append(delivered, <<>>)
           /\ attached' = Append(attached, AttachRecord)
           /\ ret' = [Ret("add_client_queue") EXCEPT !.queue = c.ref]
    /\ UNCHANGED <<session_vars, watcher_vars, thread_vars, has_local,
                   in_grace_period, client_queues, fs_observer, next_delta>>

(* add_client_queue() *)
AddClientQueue ==
    /\ AllIdle
    /\ Len(heap) < MaxQueues
    /\ LET c == QueueClone(heap, master_queue)
       IN  /\ in_grace_period' = FALSE
           /\ heap' = c.heap
           /\ delivered' = Append(delivered, <<>>)
           /\ attached' = Append(attached, AttachRecord)
           /\ client_queues' = Append(client_queues, c.ref)
           /\ ret' = [Ret("add_client_queue") EXCEPT !.queue = c.ref]
    /\ UNCHANGED <<session_vars, watcher_vars, thread_vars, has_local,
                   fs_observer, next_delta>>

(* history: one more successful remove_client_queue of the queue q *)
Removed(q) == [attached EXCEPT ![q].removed = @ + 1]

(* faulty variant of remove_client_queue: the last queue of the list is
   removed, whichever queue is passed *)
RemoveClientQueue_PopsLast ==
    /\ AllIdle
    /\ \E q \in 2..Len(heap) :
          IF q \in Range(client_queues)
          THEN /\ client_queues' =
                      SubSeq(client_queues, 1, Len(client_queues) - 1)
               /\ attached' = Removed(q)
               /\ ret' = [Ret("remove_client_queue") EXCEPT !.queue = q]
          ELSE /\ client_queues' = client_queues
               /\ attached' = attached
               /\ ret' = [Ret("remove_client_queue") EXCEPT
                             !.queue = q, !.raised = "ValueError"]
    /\ UNCHANGED <<session_vars, watcher_vars, thread_vars, has_local,
                   in_grace_period, heap, fs_observer, delivered, next_delta>>

(* remove_client_queue(queue): list.remove raises ValueError when the
   queue is not in the list; the method has no return statement *)
RemoveClientQueue ==
    /\ AllIdle
    /\ \E q \in 2..Len(heap) :
          IF q \in Range(client_queues)
          THEN /\ client_queues' = ListRemove(client_queues, q)
               /\ attached' = Removed(q)
               /\ ret' = [Ret("remove_client_queue") EXCEPT !.queue = q]
          ELSE /\ client_queues' = client_queues
               /\ attached' = attached
               /\ ret' = [Ret("remove_client_queue") EXCEPT
                             !.queue = q, !.raised = "ValueError"]
    /\ UNCHANGED <<session_vars, watcher_vars, thread_vars, has_local,
                   in_grace_period, heap, fs_observer, delivered, next_delta>>

(* faulty variant of finished_local_connection: the master queue is left
   open *)
FinishedLocalConnection_MasterLeftOpen ==
    /\ AllIdle
    /\ has_local' = FALSE
    /\ heap' = CloseAll(heap, client_queues)
    /\ ret' = Ret("finished_local_connection")
    /\ UNCHANGED <<session_vars, watcher_vars, thread_vars, in_grace_period,
                   client_queues, fs_observer, delivered, attached,
                   next_delta>>

(* faulty variant of finished_local_connection: the client queues are left
   open *)
FinishedLocalConnection_ClientsLeftOpen ==
    /\ AllIdle
    /\ has_local' = FALSE
    /\ heap' = QueueClose(heap, master_queue)
    /\ ret' = Ret("finished_local_connection")
    /\ UNCHANGED <<session_vars, watcher_vars, thread_vars, in_grace_period,
                   client_queues, fs_observer, delivered, attached,
                   next_delta>>

(* finished_local_connection() *)
FinishedLocalConnection ==
    /\ AllIdle
    /\ has_local' = FALSE
    /\ heap' = CloseAll(QueueClose(heap, master_queue), client_queues)
    /\ ret' = Ret("finished_local_connection")
    /\ UNCHANGED <<session_vars, watcher_vars, thread_vars, in_grace_period,
                   client_queues, fs_observer, delivered, attached,
                   next_delta>>

(* faulty variant of can_be_deregistered: attached clients are ignored *)
CanBeDeregistered_IgnoresClients == ~(in_grace_period \/ has_local)

(* can_be_deregistered(): the value returned in the current state *)
CanBeDeregistered ==
    LET has_clients == Len(client_queues) > 0
    IN  ~(in_grace_period \/ has_local \/ has_clients)

(* a call of can_be_deregistered() *)
CallCanBeDeregistered ==
    /\ AllIdle
    /\ ret' = [Ret("can_be_deregistered") EXCEPT
                  !.value = <<CanBeDeregistered>>]
    /\ UNCHANGED <<session_vars, watcher_vars, thread_vars, has_local,
                   in_grace_period, heap, client_queues, fs_observer,
                   delivered, attached, next_delta>>

(* str(get_local_id()): fixed for the process *)
local_id == "local_id"

(* json.dumps(manifest) *)
JsonDumps(manifest) == [json |-> manifest]

(* delta.SerializeToString() *)
SerializeToString(delta) == [bytes |-> delta]

(* faulty variant of the list built by serialize_report_to_files: the delta
   files are numbered from 1 *)
ReportFiles_CountFromOne(deltas) ==
    LET manifest == [name |-> name, local_id |-> local_id,
                     nDeltas |-> Len(deltas)]
    IN  <<<<"reports/" \o id \o "/manifest.json", JsonDumps(manifest)>>>>
        \o [i \in 1..Len(deltas) |->
              <<"reports/" \o id \o "/" \o ToString(i) \o ".delta",
                SerializeToString(deltas[i])>>]

(* the list built by serialize_report_to_files from the drained deltas;
   enumerate() counts from 0 *)
ReportFiles(deltas) ==
    LET manifest == [name |-> name, local_id |-> local_id,
                     nDeltas |-> Len(deltas)]
    IN  <<<<"reports/" \o id \o "/manifest.json", JsonDumps(manifest)>>>>
        \o [i \in 1..Len(deltas) |->
              <<"reports/" \o id \o "/" \o ToString(i - 1) \o ".delta",
                SerializeToString(deltas[i])>>]

(* faulty variant of self._master_queue.clone().get_deltas(): get_deltas()
   is called on the master queue itself *)
CloneAndGetDeltas_NoClone(h) ==
    LET g == QueueGetDeltas(h, master_queue)
    IN  [heap |-> g.heap, deltas |-> g.deltas]

(* self._master_queue.clone().get_deltas(): the heap afterwards (the
   temporary clone is garbage) and the deltas obtained *)
CloneAndGetDeltas(h) ==
    LET c == QueueClone(h, master_queue)
        g == QueueGetDeltas(c.heap, c.ref)
    IN  [heap |-> SubSeq(g.heap, 1, Len(h)), deltas |-> g.deltas]

(* serialize_report_to_files() *)
SerializeReportToFiles ==
    /\ AllIdle
    /\ LET r == CloneAndGetDeltas(heap)
       IN  /\ heap' = r.heap
           /\ ret' = [Ret("serialize_report_to_files") EXCEPT
                         !.files = ReportFiles(r.deltas)]
    /\ UNCHANGED <<session_vars, watcher_vars, thread_vars, has_local,
                   in_grace_period, client_queues, fs_observer, delivered,
                   attached, next_delta>>

(* close(): stops the observer, if there is one, and joins its thread for
   at most 5 seconds; an idle thread ends within that time *)
Close ==
    /\ AllIdle
    /\ fs_observer' = IF fs_observer # NoObserver
                      THEN [fs_observer EXCEPT !.state = "stopped"]
                      ELSE fs_observer
    /\ worker' = IF worker = "idle" THEN "terminated" ELSE worker
    /\ ret' = Ret("close")
    /\ UNCHANGED <<session_vars, events, running, handled, thread_vars,
                   has_local, in_grace_period, heap, client_queues, delivered,
                   attached, next_delta>>

(* the number of deltas that the owners of the queues have drained so far *)
RECURSIVE TotalLen(_)
TotalLen(ss) == IF ss = <<>> THEN 0 ELSE Len(Head(ss)) + TotalLen(Tail(ss))

(* the connection that owns client queue q drains it: q.get_deltas(); the
   owner runs beside the callers of the session *)
ClientGetDeltas ==
    /\ \E q \in 2..Len(heap) :
          /\ heap[q].deltas # <<>>
          /\ TotalLen(delivered) + Len(heap[q].deltas) <= MaxDelivered
          /\ LET g == QueueGetDeltas(heap, q)
             IN  /\ heap' = g.heap
                 /\ delivered' = [delivered EXCEPT ![q] = @ \o g.deltas]
    /\ attached' = attached
    /\ ret' = Ret("get_deltas")
    /\ UNCHANGED <<session_vars, watcher_vars, thread_vars, has_local,
                   in_grace_period, client_queues, fs_observer, next_delta>>

(* everything a client queue's owner has received and can still read *)
Received(q) == delivered[q] \o heap[q].deltas

(* ---- the operations step by step, for calls made from several threads.
   A call on a ReportQueue and an operation on the Python list are one step
   each; ProxyConnection takes no lock around a method body. ---- *)

(* enqueue, line 145: self._master_queue(delta); the for loop then creates
   the iterator over self._client_queues *)
EnqueueMaster(t) ==
    /\ pc[t] = "idle"
    /\ next_delta <= MaxDeltas
    /\ heap' = QueueCall(heap, master_queue, next_delta)
    /\ next_delta' = next_delta + 1
    /\ t_delta' = [t_delta EXCEPT ![t] = next_delta]
    /\ t_idx' = [t_idx EXCEPT ![t] = 1]
    /\ pc' = [pc EXCEPT ![t] = "enqueue_loop"]
    /\ UNCHANGED <<session_vars, watcher_vars, has_local, in_grace_period,
                   client_queues, fs_observer, delivered, attached, ret,
                   t_queue>>

(* enqueue, lines 146-147: the list iterator yields the element at its index
   of the list as it is now, and queue(delta) is called on it *)
EnqueueNext(t) ==
    /\ pc[t] = "enqueue_loop"
    /\ t_idx[t] <= Len(client_queues)
    /\ heap' = QueueCall(heap, client_queues[t_idx[t]], t_delta[t])
    /\ t_idx' = [t_idx EXCEPT ![t] = @ + 1]
    /\ UNCHANGED <<session_vars, watcher_vars, has_local, in_grace_period,
                   client_queues, fs_observer, delivered, attached,
                   next_delta, ret, pc, t_delta, t_queue>>

(* enqueue, line 146: the iterator is past the end of the list; return *)
EnqueueReturn(t) ==
    /\ pc[t] = "enqueue_loop"
    /\ t_idx[t] > Len(client_queues)
    /\ pc' = [pc EXCEPT ![t] = "idle"]
    /\ t_delta' = [t_delta EXCEPT ![t] = 0]
    /\ t_idx' = [t_idx EXCEPT ![t] = 0]
    /\ ret' = Ret("enqueue")
    /\ UNCHANGED <<session_vars, watcher_vars, has_local, in_grace_period,
                   heap, client_queues, fs_observer, delivered, attached,
                   next_delta, t_queue>>

(* the number of clones that the calls in progress are still to make *)
PendingClones == Cardinality({t \in Threads : pc[t] = "add_clone"})

(* add_client_queue, line 151: self.end_grace_period() *)
AddEndGracePeriod(t) ==
    /\ pc[t] = "idle"
    /\ Len(heap) + PendingClones < MaxQueues
    /\ in_grace_period' = FALSE
    /\ pc' = [pc EXCEPT ![t] = "add_clone"]
    /\ UNCHANGED <<session_vars, watcher_vars, has_local, heap, client_queues,
                   fs_observer, delivered, attached, next_delta, ret, t_delta,
                   t_idx, t_queue>>

(* add_client_queue, line 152: new_queue = self._master_queue.clone() *)
AddClone(t) ==
    /\ pc[t] = "add_clone"
    /\ LET c == QueueClone(heap, master_queue)
       IN  /\ heap' = c.heap
           /\ delivered' = Append(delivered, <<>>)
           /\ attached' = Append(attached, AttachRecord)
           /\ t_queue' = [t_queue EXCEPT ![t] = c.ref]
    /\ pc' = [pc EXCEPT ![t] = "add_append"]
    /\ UNCHANGED <<session_vars, watcher_vars, has_local, in_grace_period,
                   client_queues, fs_observer, next_delta, ret, t_delta,
                   t_idx>>

(* add_client_queue, lines 153-154: append new_queue to the list, return *)
AddAppend(t) ==
    /\ pc[t] = "add_append"
    /\ client_queues' = Append(client_queues, t_queue[t])
    /\ ret' = [Ret("add_client_queue") EXCEPT !.queue = t_queue[t]]
    /\ t_queue' = [t_queue EXCEPT ![t] = 0]
    /\ pc' = [pc EXCEPT ![t] = "idle"]
    /\ UNCHANGED <<session_vars, watcher_vars, has_local, in_grace_period,
                   heap, fs_observer, delivered, attached, next_delta,
                   t_delta, t_idx>>

(* finished_local_connection, line 127: self._has_local = False *)
FinishClearFlag(t) ==
    /\ pc[t] = "idle"
    /\ has_local
    /\ has_local' = FALSE
    /\ pc' = [pc EXCEPT ![t] = "finish_master"]
    /\ UNCHANGED <<session_vars, watcher_vars, in_grace_period, heap,
                   client_queues, fs_observer, delivered, attached,
                   next_delta, ret, t_delta, t_idx, t_queue>>

(* finished_local_connection, line 128: self._master_queue.close(); the for
   loop then creates the iterator over self._client_queues *)
FinishCloseMaster(t) ==
    /\ pc[t] = "finish_master"
    /\ heap' = QueueClose(heap, master_queue)
    /\ t_idx' = [t_idx EXCEPT ![t] = 1]
    /\ pc' = [pc EXCEPT ![t] = "finish_loop"]
    /\ UNCHANGED <<session_vars, watcher_vars, has_local, in_grace_period,
                   client_queues, fs_observer, delivered, attached,
                   next_delta, ret, t_delta, t_queue>>

(* finished_local_connection, lines 129-130: the list iterator yields the
   element at its index of the list as it is now, and it is closed *)
FinishNext(t) ==
    /\ pc[t] = "finish_loop"
    /\ t_idx[t] <= Len(client_queues)
    /\ heap' = QueueClose(heap, client_queues[t_idx[t]])
    /\ t_idx' = [t_idx EXCEPT ![t] = t_idx[t] + 1]
    /\ UNCHANGED <<session_vars, watcher_vars, has_local, in_grace_period,
                   client_queues, fs_observer, delivered, attached,
                   next_delta, ret, pc, t_delta, t_queue>>

(* finished_local_connection: the iterator is exhausted and the method
   returns *)
FinishReturn(t) ==
    /\ pc[t] = "finish_loop"
    /\ t_idx[t] > Len(client_queues)
    /\ t_idx' = [t_idx EXCEPT ![t] = 0]
    /\ pc' = [pc EXCEPT ![t] = "idle"]
    /\ ret' = Ret("finished_local_connection")
    /\ UNCHANGED <<session_vars, watcher_vars, has_local, in_grace_period,
                   heap, client_queues, fs_observer, delivered, attached,
                   next_delta, t_delta, t_queue>>

(* remove_client_queue(queue) of an attached queue, called from a thread
   of its own while other calls may be in progress: the method is the one
   list operation self._client_queues.remove(queue) *)
RemoveAttachedQueue ==
    /\ \E q \in Range(client_queues) :
          /\ client_queues' = ListRemove(client_queues, q)
          /\ attached' = Removed(q)
          /\ ret' = [Ret("remove_client_queue") EXCEPT !.queue = q]
    /\ UNCHANGED <<session_vars, watcher_vars, thread_vars, has_local,
                   in_grace_period, heap, fs_observer, delivered, next_delta>>

(* ---- the file system watcher. The Observer has one thread, which takes
   the events off its queue one at a time and calls the handler; the handler
   calls on_any_event for the events that its patterns let through. ---- *)

(* the session's data, which no step of the watcher changes *)
data_vars == <<has_local, in_grace_period, heap, client_queues, delivered,
               attached, next_delta>>

(* environment: a file system event under the observed path is queued *)
FsEvent ==
    /\ fs_observer.state = "started"
    /\ Len(events) + Len(handled) < MaxEvents
    /\ \E path \in Paths : events' = Append(events, path)
    /\ UNCHANGED <<session_vars, thread_vars, data_vars, fs_observer, worker,
                   running, handled, ret>>

(* the record of an event taken off the queue: whether on_any_event was
   called for it and, if so, the arguments of subprocess.Popen *)
Handled(path, rerun) ==
    [path |-> path, rerun |-> rerun,
     args |-> IF rerun THEN command_line ELSE <<>>,
     cwd |-> IF rerun THEN cwd ELSE None]

(* the observer's thread takes an event that the handler's patterns do not
   let through: on_any_event is not called *)
DispatchIgnored ==
    /\ fs_observer.state = "started"
    /\ worker = "idle"
    /\ events # <<>>
    /\ ~Dispatches(fs_observer.handler, Head(events))
    /\ events' = Tail(events)
    /\ handled' = Append(handled, Handled(Head(events), FALSE))
    /\ UNCHANGED <<session_vars, thread_vars, data_vars, fs_observer, worker,
                   running, ret>>

(* faulty variant of _on_fs_event: the process is started and not waited
   for *)
OnFsEventPopen_NoWait ==
    /\ fs_observer.state = "started"
    /\ worker = "idle"
    /\ events # <<>>
    /\ Dispatches(fs_observer.handler, Head(events))
    /\ events' = Tail(events)
    /\ handled' = Append(handled, Handled(Head(events), TRUE))
    /\ running' = running + 1
    /\ UNCHANGED <<session_vars, thread_vars, data_vars, fs_observer, worker,
                   ret>>

(* on_any_event -> _on_fs_event, line 122: the observer's thread starts
   the process with subprocess.Popen(self.command_line, cwd=self.cwd) and
   goes on to process.wait() *)
OnFsEventPopen ==
    /\ fs_observer.state = "started"
    /\ worker = "idle"
    /\ events # <<>>
    /\ Dispatches(fs_observer.handler, Head(events))
    /\ events' = Tail(events)
    /\ handled' = Append(handled, Handled(Head(events), TRUE))
    /\ running' = running + 1
    /\ worker' = "wait"
    /\ UNCHANGED <<session_vars, thread_vars, data_vars, fs_observer, ret>>

(* environment: a re-run process exits *)
ProcessExit ==
    /\ running > 0
    /\ running' = running - 1
    /\ UNCHANGED <<session_vars, thread_vars, data_vars, fs_observer, events,
                   worker, handled, ret>>

(* _on_fs_event, line 123: process.wait() returns once the process has
   exited, and the handler returns to the observer's thread *)
OnFsEventWaitReturns ==
    /\ worker = "wait"
    /\ running = 0
    /\ worker' = "idle"
    /\ UNCHANGED <<session_vars, thread_vars, data_vars, fs_observer, events,
                   running, handled, ret>>

(* the observer's thread, not in the handler, sees the stop request and
   ends *)
ObserverThreadEnds ==
    /\ fs_observer.state = "stopped"
    /\ worker = "idle"
    /\ worker' = "terminated"
    /\ UNCHANGED <<session_vars, thread_vars, data_vars, fs_observer, events,
                   running, handled, ret>>

(* close, lines 72-73: without an observer the call returns at once; with
   one, self._fs_observer.stop() *)
CloseStop(t) ==
    /\ pc[t] = "idle"
    /\ IF fs_observer = NoObserver
       THEN /\ ret' = Ret("close")
            /\ UNCHANGED <<fs_observer, pc>>
       ELSE /\ fs_observer' = [fs_observer EXCEPT !.state = "stopped"]
            /\ pc' = [pc EXCEPT ![t] = "close_join"]
            /\ UNCHANGED ret
    /\ UNCHANGED <<session_vars, watcher_vars, data_vars, t_delta, t_idx,
                   t_queue>>

(* faulty variant of the join in close: join() without a timeout *)
CloseJoin_NoTimeout(t) ==
    /\ pc[t] = "close_join"
    /\ worker = "terminated"
    /\ pc' = [pc EXCEPT ![t] = "idle"]
    /\ ret' = Ret("close")
    /\ UNCHANGED <<session_vars, watcher_vars, data_vars, fs_observer,
                   t_delta, t_idx, t_queue>>

(* close, line 74: self._fs_observer.join(timeout=5) returns when the
   observer's thread has ended or when the 5 seconds are over *)
CloseJoin(t) ==
    /\ pc[t] = "close_join"
    /\ \E timed_out \in BOOLEAN : timed_out \/ worker = "terminated"
    /\ pc' = [pc EXCEPT ![t] = "idle"]
    /\ ret' = Ret("close")
    /\ UNCHANGED <<session_vars, watcher_vars, data_vars, fs_observer,
                   t_delta, t_idx, t_queue>>

Next ==
    \/ Enqueue
    \/ EndGracePeriod
    \/ AddClientQueue
    \/ RemoveClientQueue
    \/ FinishedLocalConnection
    \/ CallCanBeDeregistered
    \/ SerializeReportToFiles
    \/ Close
    \/ ClientGetDeltas

Spec == InitSession /\ [][Next]_vars

(* a session without viewers, under every configuration and environment *)
NextProducer ==
    \/ Enqueue
    \/ EndGracePeriod
    \/ FinishedLocalConnection
    \/ CallCanBeDeregistered
    \/ SerializeReportToFiles
    \/ Close

SpecProducer == Init /\ [][NextProducer]_vars

(* enqueue and add_client_queue called from different threads *)
NextAttach ==
    \E t \in Threads :
        \/ EnqueueMaster(t)
        \/ EnqueueNext(t)
        \/ EnqueueReturn(t)
        \/ AddEndGracePeriod(t)
        \/ AddClone(t)
        \/ AddAppend(t)

SpecAttach == InitSession /\ [][NextAttach]_vars

(* enqueue called from different threads; viewers attach while no call is
   in progress, and drain their queues at any time *)
NextFanout ==
    \/ AddClientQueue
    \/ ClientGetDeltas
    \/ \E t \in Threads :
        \/ EnqueueMaster(t)
        \/ EnqueueNext(t)
        \/ EnqueueReturn(t)

SpecFanout == InitSession /\ [][NextFanout]_vars

(* enqueue called from different threads while viewers detach at any time;
   viewers attach while no call is in progress *)
NextDetach ==
    \/ AddClientQueue
    \/ RemoveAttachedQueue
    \/ \E t \in Threads :
        \/ EnqueueMaster(t)
        \/ EnqueueNext(t)
        \/ EnqueueReturn(t)

SpecDetach == InitSession /\ [][NextDetach]_vars

(* the producer's connection ends while viewers attach from other threads *)
NextFinish ==
    \E t \in Threads :
        \/ FinishClearFlag(t)
        \/ FinishCloseMaster(t)
        \/ FinishNext(t)
        \/ FinishReturn(t)
        \/ AddEndGracePeriod(t)
        \/ AddClone(t)
        \/ AddAppend(t)

SpecFinish == InitSession /\ [][NextFinish]_vars

(* one session of any configuration: file system events, the observer's
   thread and the re-run processes, with close called from any thread *)
NextWatcher ==
    \/ FsEvent
    \/ DispatchIgnored
    \/ OnFsEventPopen
    \/ ProcessExit
    \/ OnFsEventWaitReturns
    \/ ObserverThreadEnds
    \/ \E t \in Threads :
        \/ CloseStop(t)
        \/ CloseJoin(t)

InitWatcher == Init /\ id = "abc"

SpecWatcher == InitWatcher /\ [][NextWatcher]_vars

(* a thread that is in join(timeout=5) gets to run again: the timeout ends
   the wait whatever the observer's thread does. No fairness is assumed of
   the re-run process or of the observer's thread. *)
SpecWatcherLive ==
    SpecWatcher /\ \A t \in Threads : WF_vars(CloseJoin(t))

TypeOK ==
    /\ has_local \in BOOLEAN
    /\ in_grace_period \in BOOLEAN
    /\ Len(heap) <= MaxQueues
    /\ Len(delivered) = Len(heap)
    /\ Len(attached) = Len(heap)
    /\ Range(client_queues) \subseteq 2..Len(heap)
    /\ worker \in {None, "idle", "wait", "terminated"}
    /\ running \in 0..MaxEvents
    /\ Len(events) + Len(handled) <= MaxEvents

(* ---- properties ---- *)

(* the deltas 1..n in the order in which enqueue was called *)
EnqueueOrder(n) == [k \in 1..n |-> k]

(* the number of times d occurs in the sequence s *)
Count(d, s) == Cardinality({i \in 1..Len(s) : s[i] = d})

(* C1: replay completeness. With calls made one after another, a client
   queue attached while the producer was present and the master queue open
   has received exactly the deltas enqueued before the attach (its seed)
   followed by every delta enqueued since, in enqueue order, without gap or
   duplicate; while the producer is present no enqueued delta is dropped. *)
C1_ReplayCompleteness ==
    \A i \in 1..Len(client_queues) :
        LET q == client_queues[i]
        IN  attached[q].live =>
              /\ Received(q) = EnqueueOrder(Len(heap[master_queue].deltas))
              /\ has_local => Len(Received(q)) = next_delta - 1

(* a queue attached just now holds a history of two deltas, and an older
   attached queue received a delta after its owner had drained it *)
C1_Witness ==
    /\ ret.op = "add_client_queue"
    /\ attached[ret.queue].live
    /\ Len(heap[ret.queue].deltas) >= 2
    /\ \E i \in 1..Len(client_queues) :
          LET q == client_queues[i]
          IN  /\ attached[q].live
              /\ delivered[q] # <<>>
              /\ heap[q].deltas # <<>>

(* C2: when add_client_queue runs concurrently with enqueue, then once all
   calls have returned every attached client queue holds every enqueued
   delta exactly once. *)
C2_AttachExactlyOnce ==
    AllIdle =>
        \A i \in 1..Len(client_queues) :
            \A d \in 1..(next_delta - 1) :
                Count(d, Received(client_queues[i])) = 1

(* C3: when enqueue calls run concurrently with client queues attached, then
   once all calls have returned every attached client queue holds the full
   set of enqueued deltas, in the order of the master queue. *)
C3_FanoutOrder ==
    AllIdle =>
        \A i \in 1..Len(client_queues) :
            /\ Range(Received(client_queues[i])) = 1..(next_delta - 1)
            /\ Received(client_queues[i]) = heap[master_queue].deltas

(* C4: can_be_deregistered() returns true iff the grace period has ended and
   the producer is gone and no client queue is attached, and the call
   changes nothing of the session. *)
C4_TeardownEligibility ==
    /\ [](ret.op = "can_be_deregistered" =>
            ret.value = <<(~in_grace_period /\ ~has_local
                           /\ client_queues = <<>>)>>)
    /\ [][ret'.op = "can_be_deregistered" =>
            UNCHANGED <<has_local, in_grace_period, heap, client_queues,
                        fs_observer>>]_vars

C4_Witness ==
    /\ ret.op = "can_be_deregistered"
    /\ ret.value = <<TRUE>>
    /\ Len(heap) > 1

(* what serialize_report_to_files() would return in the current state *)
Archive == ReportFiles(CloneAndGetDeltas(heap).deltas)

(* C5: post-close drop. Once finished_local_connection() has been called, an
   enqueue changes nothing of what serialize_report_to_files() returns, and
   raises no error. *)
C5_PostCloseDrop ==
    [][(~has_local /\ ret'.op = "enqueue") =>
          (Archive' = Archive /\ ret'.raised = None)]_vars

C5_Witness ==
    /\ ~has_local
    /\ ret.op = "enqueue"
    /\ Len(Archive) > 1
    /\ next_delta - 1 > Len(heap[master_queue].deltas)

(* the file name of the delta at each position of the master queue *)
DeltaFileNames == <<"0.delta", "1.delta", "2.delta", "3.delta", "4.delta",
                    "5.delta", "6.delta", "7.delta", "8.delta", "9.delta">>

(* C6: archive shape. For a master queue of n deltas,
   serialize_report_to_files() returns n+1 entries: the manifest
   reports/<id>/manifest.json with nDeltas = n and the session's name, then
   for i in 0..n-1 the entry reports/<id>/<i>.delta holding the i-th delta
   of the master queue. *)
C6_ArchiveShape ==
    ret.op = "serialize_report_to_files" =>
        LET f == ret.files
            deltas == heap[master_queue].deltas
            n == Len(deltas)
        IN  /\ Len(f) = n + 1
            /\ f[1][1] = "reports/" \o id \o "/manifest.json"
            /\ f[1][2].json.nDeltas = n
            /\ f[1][2].json.name = name
            /\ \A i \in 0..(n - 1) :
                  /\ f[i + 2][1] = "reports/" \o id \o "/"
                                    \o DeltaFileNames[i + 1]
                  /\ f[i + 2][2] = [bytes |-> deltas[i + 1]]

C6_Witness ==
    /\ ret.op = "serialize_report_to_files"
    /\ Len(ret.files) = 3
    /\ id = "xyz"

(* C7: serialize_report_to_files() leaves the session as it was: the queues
   (contents and closed flags), the list of client queues and the flags; two
   exports in a row return the same list, and a client queue attached right
   after an export holds the whole history that was exported. *)
C7_ExportLeavesSession ==
    [][/\ ret'.op = "serialize_report_to_files" =>
            UNCHANGED <<heap, client_queues, has_local, in_grace_period,
                        fs_observer, delivered>>
       /\ (ret.op = "serialize_report_to_files"
           /\ ret'.op = "serialize_report_to_files") =>
              ret'.files = ret.files
       /\ (ret.op = "serialize_report_to_files"
           /\ ret'.op = "add_client_queue") =>
              /\ heap'[ret'.queue].deltas = heap[master_queue].deltas
              /\ Len(heap'[ret'.queue].deltas) = Len(ret.files) - 1]_vars

C7_Witness ==
    /\ ret.op = "serialize_report_to_files"
    /\ Len(ret.files) > 1
    /\ client_queues # <<>>
    /\ heap[master_queue].deltas # <<>>

(* C8: clone independence. A clone is a new queue holding, at the clone
   instant, the deltas of the master queue in the same order and leaving the
   master queue as it was. Afterwards a step changes the deltas of a queue
   only by a call on that queue: enqueue appends its delta once to the
   master queue and once to each attached client queue (an append to a
   closed queue is dropped) and to no other queue, get_deltas clears one
   client queue and no other, and closing queues changes no contents. *)
C8_CloneIndependence ==
    [][/\ ret'.op = "add_client_queue" =>
            /\ ret'.queue = Len(heap) + 1
            /\ heap'[ret'.queue].deltas = heap[master_queue].deltas
            /\ SubSeq(heap', 1, Len(heap)) = heap
       /\ ret'.op = "enqueue" =>
            \A q \in 1..Len(heap) :
                heap'[q].deltas =
                    IF (q = master_queue \/ q \in Range(client_queues))
                       /\ ~heap[q].closed
                    THEN Append(heap[q].deltas, next_delta)
                    ELSE heap[q].deltas
       /\ ret'.op = "get_deltas" =>
            /\ heap'[master_queue] = heap[master_queue]
            /\ Cardinality({q \in 1..Len(heap) : heap'[q] # heap[q]}) = 1
       /\ ret'.op = "finished_local_connection" =>
            \A q \in 1..Len(heap) : heap'[q].deltas = heap[q].deltas]_vars

(* a detached clone was drained by its owner, and the master queue has
   since grown and been closed while the clone is still open *)
C8_Witness ==
    \E q \in 2..Len(heap) :
        /\ q \notin Range(client_queues)
        /\ delivered[q] # <<>>
        /\ heap[q].deltas = <<>>
        /\ Len(heap[master_queue].deltas) > Len(delivered[q])
        /\ heap[master_queue].closed
        /\ ~heap[q].closed

(* C9: watcher fallback. With watching enabled and recursive mode
   configured, when the recursive start fails and the flat start succeeds
   the session holds a flat observer, started at construction; when both
   starts fail the session holds no observer. *)
C9_WatcherFallback ==
    (cfg.watchFileSystem /\ cfg.watchUpdatesRecursively
     /\ ~start_ok.recursive) =>
        IF start_ok.flat
        THEN /\ fs_observer # NoObserver
             /\ ~fs_observer.recursive
             /\ fs_observer.state \in {"started", "stopped"}
             /\ ret.op = "__init__" => fs_observer.state = "started"
        ELSE fs_observer = NoObserver

C9_Witness ==
    /\ cfg.watchFileSystem /\ cfg.watchUpdatesRecursively
    /\ ~start_ok.recursive /\ start_ok.flat
    /\ start_attempts = <<"recursive", "flat">>
    /\ fs_observer.state = "started"
    /\ ret.op = "enqueue"

(* C10: the grace period is on right after construction and, once it is
   off, no operation turns it on again. *)
C10_GracePeriodMonotonic ==
    /\ in_grace_period = TRUE
    /\ [][~in_grace_period => ~in_grace_period']_vars

C10_Witness ==
    /\ ~in_grace_period
    /\ ret.op = "finished_local_connection"
    /\ client_queues # <<>>

(* C11: add_client_queue() ends the grace period whatever the state (also
   with the producer present, also with an empty master queue) and appends
   the queue it returns to the list of client queues, so that right after
   it has returned can_be_deregistered() is false. *)
C11_AttachEndsGracePeriod ==
    ret.op = "add_client_queue" =>
        /\ ~in_grace_period
        /\ ret.queue \in Range(client_queues)
        /\ ~CanBeDeregistered

(* the first operation on a new session is an attach: the producer is
   present, the master queue is empty and the grace period was on *)
C11_Witness ==
    /\ ret.op = "add_client_queue"
    /\ has_local
    /\ heap[master_queue].deltas = <<>>
    /\ next_delta = 1
    /\ client_queues = <<ret.queue>>

(* C12: when finished_local_connection() has returned, the producer flag
   is false, the master queue is closed and every client queue that was in
   the list when the call was made is closed; the list is the same and the
   deltas held by the master queue and by those client queues are what they
   were before the call. *)
C12_FinishedClosesAll ==
    [][ret'.op = "finished_local_connection" =>
          /\ ~has_local'
          /\ heap'[master_queue].closed
          /\ \A q \in Range(client_queues) : heap'[q].closed
          /\ client_queues' = client_queues
          /\ Len(heap') = Len(heap)
          /\ \A q \in {master_queue} \cup Range(client_queues) :
                heap'[q].deltas = heap[q].deltas]_vars

(* the producer has just left a session with two attached client queues
   that hold deltas *)
C12_Witness ==
    /\ ret.op = "finished_local_connection"
    /\ Len(client_queues) >= 2
    /\ heap[master_queue].deltas # <<>>
    /\ \A q \in Range(client_queues) :
          heap[q].closed /\ heap[q].deltas # <<>>

(* the events taken off the queue for which a process was started *)
Reruns == SelectSeq(handled, LAMBDA h : h.rerun)

(* C13: the re-runs of one session are serialized by its watcher: at most
   one re-run process is alive at any time, the observer's thread starts
   the process for the next event only when the previous process has
   exited, every process is started with the session's command line in the
   session's working directory, and when the queue is empty again every
   event that the patterns let through has had its own re-run. *)
C13_SerializedReruns ==
    /\ [](/\ running <= 1
          /\ worker # "wait" => running = 0
          /\ \A i \in 1..Len(Reruns) :
                Reruns[i].args = command_line /\ Reruns[i].cwd = cwd
          /\ events = <<>> =>
                Len(Reruns) =
                    Cardinality({i \in 1..Len(handled) :
                        Dispatches(fs_observer.handler, handled[i].path)}))
    /\ [][Len(Reruns') > Len(Reruns) => running = 0 /\ running' = 1]_vars

(* a burst of two events was queued while the first re-run was going on;
   both have had their re-run and the second process is still alive *)
C13_Witness ==
    /\ Len(Reruns) = 2
    /\ events = <<>>
    /\ worker = "wait"
    /\ running = 1
    /\ fs_observer.state = "started"

(* C14: remove_client_queue(queue) with a queue that is not in the list of
   client queues (never attached, or removed before) raises no exception
   and leaves the list, the queues and the flags as they were. *)
C14_DetachUnknownQueue ==
    [][(ret'.op = "remove_client_queue"
        /\ ret'.queue \notin Range(client_queues)) =>
          /\ ret'.raised = None
          /\ UNCHANGED <<client_queues, heap, has_local,
                         in_grace_period>>]_vars

(* C15: remove_client_queue(queue) returns True iff the list of client
   queues is empty once the queue has been removed. *)
C15_DetachReturnValue ==
    (ret.op = "remove_client_queue" /\ ret.raised = None) =>
        ret.value = <<(client_queues = <<>>)>>

(* C16: close() always returns. With an observer it requests the stop and
   then waits in join(timeout=5), from which it returns whether or not the
   observer's thread ever ends (the thread may be blocked in process.wait()
   for good); without an observer it returns having changed nothing; a
   close() on a stopped observer changes nothing further. *)
C16_CloseReturns ==
    /\ \A t \in Threads : (pc[t] = "close_join") ~> (pc[t] = "idle")
    /\ [][\A t \in Threads :
            (pc[t] = "idle" /\ pc'[t] = "close_join") =>
                fs_observer'.state = "stopped"]_vars
    /\ [][(fs_observer = NoObserver /\ ret'.op = "close") =>
            UNCHANGED <<fs_observer, watcher_vars, data_vars, pc>>]_vars
    /\ [][(fs_observer.state = "stopped" /\ pc' # pc) =>
            UNCHANGED <<fs_observer, watcher_vars, data_vars>>]_vars

(* close() has returned while the observer's thread is still waiting for a
   re-run process that has not exited, with an event left in the queue *)
C16_Witness ==
    /\ ret.op = "close"
    /\ AllIdle
    /\ fs_observer.state = "stopped"
    /\ worker = "wait"
    /\ running = 1
    /\ events # <<>>

(* C17: the re-run callback is invoked for a file system event iff the
   event's path matches at least one pattern of proxy.watchPatterns and no
   pattern of proxy.ignorePatterns; for every other event no process is
   started. *)
C17_PatternFilter ==
    \A i \in 1..Len(handled) :
        handled[i].rerun <=>
            /\ \E pattern \in cfg.watchPatterns :
                  handled[i].path \in Matching(pattern)
            /\ \A pattern \in cfg.ignorePatterns :
                  handled[i].path \notin Matching(pattern)

(* with *.py watched and */.git/* ignored, an event in .git and an event
   for a csv file started nothing, and an event for a watched file did *)
C17_Witness ==
    /\ cfg.watchPatterns = {"*.py"}
    /\ cfg.ignorePatterns = {"*/.git/*"}
    /\ \E i, j \in 1..Len(handled) :
          /\ handled[i].path = "/w/.git/hook.py" /\ ~handled[i].rerun
          /\ handled[j].path = "/w/app.py" /\ handled[j].rerun

(* C18: the fallback is one-way. A second start, in flat mode, is attempted
   only when recursive mode is configured and its start failed; with flat
   mode configured there is exactly one attempt, and when it fails the
   session has no observer; there are never more than two attempts, and
   none when proxy.watchFileSystem is off. *)
C18_FallbackAsymmetry ==
    /\ Len(start_attempts) <= 2
    /\ ~cfg.watchFileSystem =>
          start_attempts = <<>> /\ fs_observer = NoObserver
    /\ (cfg.watchFileSystem /\ ~cfg.watchUpdatesRecursively) =>
          /\ start_attempts = <<"flat">>
          /\ ~start_ok.flat => fs_observer = NoObserver
    /\ (cfg.watchFileSystem /\ cfg.watchUpdatesRecursively) =>
          start_attempts = IF start_ok.recursive
                           THEN <<"recursive">>
                           ELSE <<"recursive", "flat">>
    /\ Len(start_attempts) = 2 =>
          /\ cfg.watchFileSystem /\ cfg.watchUpdatesRecursively
          /\ ~start_ok.recursive

(* flat mode is configured and its start failed: one attempt, no observer,
   although a recursive start would have succeeded; the session is in use *)
C18_Witness ==
    /\ cfg.watchFileSystem /\ ~cfg.watchUpdatesRecursively
    /\ ~start_ok.flat /\ start_ok.recursive
    /\ start_attempts = <<"flat">>
    /\ fs_observer = NoObserver
    /\ ret.op = "close"

(* C19: when remove_client_queue runs concurrently with the fan-out loop of
   an enqueue, then once all calls have returned every client queue that is
   still attached holds every enqueued delta exactly once. *)
C19_DetachDuringFanout ==
    AllIdle =>
        \A q \in Range(client_queues) :
            \A d \in 1..(next_delta - 1) :
                Count(d, Received(q)) = 1

(* C20: in every state in which the producer flag is false and no call is
   in progress, every attached client queue is closed, a queue attached
   concurrently with finished_local_connection included. Stated for the
   client queues that were cloned while the producer was present and the
   master queue open, for which the outcome does not depend on what clone()
   makes of a closed queue. *)
C20_EndOfStreamReachesAll ==
    (AllIdle /\ ~has_local) =>
        \A q \in Range(client_queues) :
            attached[q].live => heap[q].closed

(* is the sequence s a prefix of, or the whole of, the sequence u *)
IsPrefix(s, u) == Len(s) <= Len(u) /\ SubSeq(u, 1, Len(s)) = s

(* C21: no phantom deltas. With calls made one after another, what an
   attached client queue has received so far is a prefix of, or the whole
   of, the deltas held by the master queue; an enqueue made after
   finished_local_connection adds a delta to no attached client queue,
   whenever that queue was attached. *)
C21_NoPhantomDeltas ==
    /\ [](\A q \in Range(client_queues) :
            IsPrefix(Received(q), heap[master_queue].deltas))
    /\ [][(~has_local /\ ret'.op = "enqueue") =>
            \A q \in Range(client_queues) :
                heap'[q].deltas = heap[q].deltas]_vars

(* C22: once can_be_deregistered() is true it stays true under enqueue,
   finished_local_connection, end_grace_period, serialize_report_to_files
   and close (and under every other call but one): only add_client_queue
   makes it false again; the producer flag, once false, is never set back
   to true. *)
C22_TeardownStable ==
    /\ [][(CanBeDeregistered /\ ~CanBeDeregistered') =>
            ret'.op = "add_client_queue"]_vars
    /\ [][~has_local => ~has_local']_vars

(* the session was eligible for teardown (producer gone, the first viewer
   detached) and is no longer, a new viewer having attached; deltas were
   enqueued on the way *)
C22_Witness ==
    /\ ret.op = "add_client_queue"
    /\ ~has_local
    /\ Len(client_queues) = 1
    /\ Len(heap) = 3
    /\ next_delta > 1
    /\ ~CanBeDeregistered

(* the number of successful remove_client_queue calls so far *)
RECURSIVE Detaches(_)
Detaches(recs) ==
    IF recs = <<>> THEN 0 ELSE Head(recs).removed + Detaches(Tail(recs))

(* the number of add_client_queue calls so far: one record is kept for the
   master queue and one for each client queue made *)
Attaches == Len(attached) - 1

(* C23: remove_client_queue(c) of an attached client queue c removes c and
   nothing else from the list, the other client queues staying in their
   order, and leaves the queues and their contents, the producer flag and
   the grace period flag as they were; after any sequence of attaches and
   detaches the number of attached client queues is the number of attaches
   minus the number of successful detaches. *)
C23_DetachFrame ==
    /\ [](Len(client_queues) = Attaches - Detaches(attached))
    /\ [][(ret'.op = "remove_client_queue" /\ ret'.raised = None) =>
            /\ ret'.queue \in Range(client_queues)
            /\ client_queues' =
                  SelectSeq(client_queues, LAMBDA q : q # ret'.queue)
            /\ UNCHANGED <<heap, delivered, has_local, in_grace_period,
                           fs_observer>>]_vars

(* of two attached client queues the one attached first has just been
   removed; the one that remains holds deltas and the producer is present *)
C23_Witness ==
    /\ ret.op = "remove_client_queue"
    /\ ret.raised = None
    /\ Len(client_queues) >= 1
    /\ \A i \in 1..Len(client_queues) :
          /\ ret.queue < client_queues[i]
          /\ heap[client_queues[i]].deltas # <<>>
    /\ Attaches = 2
    /\ Detaches(attached) = 1
    /\ has_local

====
